---- MODULE Spec2Model ----
(***************************************************************************)
(* A model of scripts/gen_builtins.py: one run of main(), which writes     *)
(* pkl/Builtins.pkl from the fragments in pkl/builtins, runs the pkl       *)
(* formatter, reflects over every fragment to collect metadata entries and *)
(* writes pkl/builtins_meta.json through a temp file and a rename.         *)
(*                                                                         *)
(* Strings the code computes on (file names, paths) are sequences of       *)
(* one-character strings; file contents are sequences of the chunks the    *)
(* code writes.                                                            *)
(***************************************************************************)
EXTENDS Integers, Sequences, FiniteSets, TLC

VARIABLES
    dir,          \* names of the entries of the directory pkl/builtins
    reflectOut,   \* what `pkl eval` answers for each fragment path
    metaPrior,    \* pkl/builtins_meta.json as it was before the run
    pc,           \* position of main()
    files,        \* the sorted glob result the current for-loop iterates
    idx,          \* index of the loop's next element in files
    aggFile,      \* pkl/Builtins.pkl
    aggFormatted, \* whether the formatter has rewritten pkl/Builtins.pkl
    fmtStatus,    \* the formatter's exit status, once it returned
    entries,      \* the list `entries`
    tmpfile,      \* the mkstemp file pkl/builtins_meta.json.*.tmp
    metaFile,     \* pkl/builtins_meta.json
    stdout,       \* what the run printed
    exc,          \* the exception that ended the run, "none" otherwise
    events        \* history: the externally visible steps, in order

vars ==
    <<dir, reflectOut, metaPrior, pc, files, idx, aggFile, aggFormatted,
      fmtStatus, entries, tmpfile, metaFile, stdout, exc, events>>

----------------------------------------------------------------------------
(* Bounds *)

MaxStemLen ==
    2

MaxFiles ==
    3

MaxAnns ==
    2

----------------------------------------------------------------------------
(* Strings *)

\* ord(c) of the characters that occur in the modelled names and paths.
Code(c) ==
    CASE c = "-" -> 45 [] c = "." -> 46 [] c = "/" -> 47 [] c = "_" -> 95
      [] c = "a" -> 97 [] c = "b" -> 98 [] c = "i" -> 105 [] c = "k" -> 107
      [] c = "l" -> 108 [] c = "n" -> 110 [] c = "p" -> 112 [] c = "s" -> 115
      [] c = "t" -> 116 [] c = "u" -> 117 [] c = "x" -> 120

\* Python's str `<`: code points compared left to right, a proper prefix first.
RECURSIVE StrLess(_, _)
StrLess(a, b) ==
    IF b = <<>> THEN FALSE
    ELSE IF a = <<>> THEN TRUE
    ELSE IF Code(Head(a)) # Code(Head(b)) THEN Code(Head(a)) < Code(Head(b))
    ELSE StrLess(Tail(a), Tail(b))

\* p.rfind(c), 1-based; 0 when c does not occur.
RFind(p, c) ==
    LET hits == {i \in 1..Len(p) : p[i] = c}
    IN  IF hits = {} THEN 0 ELSE CHOOSE i \in hits : \A j \in hits : j <= i

EndsWith(s, suffix) ==
    /\ Len(s) >= Len(suffix)
    /\ SubSeq(s, Len(s) - Len(suffix) + 1, Len(s)) = suffix

\* s.replace(old, new) for one-character old and new.
Replace(s, old, new) ==
    [i \in 1..Len(s) |-> IF s[i] = old THEN new ELSE s[i]]

\* os.path.basename
Basename(p) ==
    SubSeq(p, RFind(p, "/") + 1, Len(p))

\* os.path.splitext(p)[0]: cut at the last dot, unless everything between the
\* last separator and that dot is dots (a leading-dot name has no extension).
SplitextRoot(p) ==
    LET sepIndex == RFind(p, "/")
        dotIndex == RFind(p, ".")
    IN  IF /\ dotIndex > sepIndex
           /\ \E k \in (sepIndex + 1)..(dotIndex - 1) : p[k] # "."
        THEN SubSeq(p, 1, dotIndex - 1)
        ELSE p

----------------------------------------------------------------------------
(* The aggregator pass: pure parts *)

HEADER ==
    "// THIS FILE IS GENERATED ... class ProjectIndicator ... class meta ..."

\* "pkl/builtins/"
BuiltinsDir ==
    <<"p", "k", "l", "/", "b", "u", "i", "l", "t", "i", "n", "s", "/">>

PklExt ==
    <<".", "p", "k", "l">>

\* glob.glob("pkl/builtins/*.pkl"): the entries whose name ends in ".pkl",
\* except those starting with a dot, which `*` never matches; each as a path.
Glob(d) ==
    {BuiltinsDir \o n : n \in {m \in d : EndsWith(m, PklExt) /\ Head(m) # "."}}

\* Mutant of Sorted: the paths in descending order.
RECURSIVE SortedDescending(_)
SortedDescending(S) ==
    IF S = {} THEN <<>>
    ELSE LET most == CHOOSE x \in S : \A y \in S \ {x} : StrLess(y, x)
         IN  <<most>> \o SortedDescending(S \ {most})

\* sorted(paths): ascending by str comparison of the whole path.
RECURSIVE Sorted(_)
Sorted(S) ==
    IF S = {} THEN <<>>
    ELSE LET least == CHOOSE x \in S : \A y \in S \ {x} : StrLess(x, y)
         IN  <<least>> \o Sorted(S \ {least})

\* filename = os.path.splitext(os.path.basename(filepath))[0]
Filename(filepath) ==
    SplitextRoot(Basename(filepath))

\* Mutant of Identifier: only the first hyphen is replaced.
IdentifierFirstHyphen(filepath) ==
    LET name == Filename(filepath)
        hits == {i \in 1..Len(name) : name[i] = "-"}
    IN  [i \in 1..Len(name) |->
            IF i \in hits /\ (\A j \in hits : i <= j) THEN "_" ELSE name[i]]

\* identifier = filename.replace("-", "_")
Identifier(filepath) ==
    Replace(Filename(filepath), "-", "_")

\* f'{identifier} = Builtins["builtins/{filename}.pkl"].{identifier}\n'
BindingLine(filepath) ==
    Identifier(filepath) \o <<" = Builtins[\"builtins/">> \o Filename(filepath)
        \o <<".pkl\"].">> \o Identifier(filepath) \o <<"\n">>

----------------------------------------------------------------------------
(* The metadata pass: pure parts *)

\* A JSON value of a project_indicators key: a list of indicators or not.
JList(items) ==
    [isList |-> TRUE, items |-> items]

JString(s) ==
    [isList |-> FALSE, items |-> <<s>>]

\* Mutant of ScanAnnotations: project_indicators is taken whatever its type.
RECURSIVE ScanAnnotationsAnyType(_, _)
ScanAnnotationsAnyType(anns, acc) ==
    IF anns = <<>> THEN acc
    ELSE LET ann == Head(anns)
             a1 == IF "category" \in DOMAIN ann
                   THEN [acc EXCEPT !.category = ann.category] ELSE acc
             a2 == IF "description" \in DOMAIN ann
                   THEN [a1 EXCEPT !.description = ann.description] ELSE a1
             a3 == IF "project_indicators" \in DOMAIN ann
                   THEN [a2 EXCEPT !.project_indicators = ann.project_indicators]
                   ELSE a2
         IN  ScanAnnotationsAnyType(Tail(anns), a3)

\* Mutant of ScanAnnotations: the first element that has a key wins.
RECURSIVE ScanAnnotationsFirstWins(_, _)
ScanAnnotationsFirstWins(anns, acc) ==
    IF anns = <<>> THEN acc
    ELSE LET ann == anns[Len(anns)]
             a1 == IF "category" \in DOMAIN ann
                   THEN [acc EXCEPT !.category = ann.category] ELSE acc
             a2 == IF "description" \in DOMAIN ann
                   THEN [a1 EXCEPT !.description = ann.description] ELSE a1
             a3 == IF /\ "project_indicators" \in DOMAIN ann
                      /\ ann.project_indicators.isList
                   THEN [a2 EXCEPT !.project_indicators = ann.project_indicators]
                   ELSE a2
         IN  ScanAnnotationsFirstWins(SubSeq(anns, 1, Len(anns) - 1), a3)

\* The scan of one property's annotations (lines 83-95): every element that
\* has a key overwrites what an earlier element set; project_indicators only
\* when the value is a list.
RECURSIVE ScanAnnotations(_, _)
ScanAnnotations(anns, acc) ==
    IF anns = <<>> THEN acc
    ELSE LET ann == Head(anns)
             a1 == IF "category" \in DOMAIN ann
                   THEN [acc EXCEPT !.category = ann.category] ELSE acc
             a2 == IF "description" \in DOMAIN ann
                   THEN [a1 EXCEPT !.description = ann.description] ELSE a1
             a3 == IF /\ "project_indicators" \in DOMAIN ann
                      /\ ann.project_indicators.isList
                   THEN [a2 EXCEPT !.project_indicators = ann.project_indicators]
                   ELSE a2
         IN  ScanAnnotations(Tail(anns), a3)

\* The entry appended for a property (lines 83-102).
EntryOf(prop) ==
    ScanAnnotations(prop.annotations,
        [name |-> prop.name, category |-> "", description |-> "",
         project_indicators |-> JList(<<>>)])

\* Lines 79-105 for one fragment's stdout: the entries it appends (none or
\* one). json.loads failing, a document that is no object and a first property
\* that is no object all raise inside the try and are skipped; a missing
\* moduleClass.properties is an empty mapping, whose loop body never runs.
ExtractEntries(raw_json) ==
    IF ~raw_json.valid THEN <<>>
    ELSE IF ~raw_json.isDict THEN <<>>
    ELSE IF raw_json.props = <<>> THEN <<>>
    ELSE IF ~raw_json.props[1].isDict THEN <<>>
    ELSE <<EntryOf(raw_json.props[1])>>

\* The chunks json.dump(entries, f, indent=None) writes, in order.
DumpIndicators(v) ==
    IF v.items = <<>> THEN <<"[]">>
    ELSE <<"[">>
         \o [i \in 1..(2 * Len(v.items) - 1) |->
                IF i % 2 = 1 THEN v.items[(i + 1) \div 2] ELSE ", "]
         \o <<"]">>

DumpEntry(e) ==
    <<"{", "\"name\"", ": ", e.name, ", ", "\"category\"", ": ", e.category,
      ", ", "\"description\"", ": ", e.description, ", ",
      "\"project_indicators\"", ": ">>
        \o DumpIndicators(e.project_indicators) \o <<"}">>

RECURSIVE DumpItems(_)
DumpItems(es) ==
    IF es = <<>> THEN <<>>
    ELSE IF Len(es) = 1 THEN DumpEntry(es[1])
    ELSE DumpEntry(es[1]) \o <<", ">> \o DumpItems(Tail(es))

JsonChunks(es) ==
    IF es = <<>> THEN <<"[]">> ELSE <<"[">> \o DumpItems(es) \o <<"]">>

----------------------------------------------------------------------------
(* Inputs *)

Alphabet ==
    {"a", "-", "."}

Stems ==
    UNION {[1..n -> Alphabet] : n \in 1..MaxStemLen}

\* Every name over Alphabet up to the bound, with and without the extension.
GeneratedNames ==
    Stems \cup {s \o PklExt : s \in Stems}

\* a.pkl, a-b.pkl, a.b.pkl, the hidden .a.pkl and a.txt
SampleNames ==
    {<<"a">> \o PklExt, <<"a", "-", "b">> \o PklExt, <<"a", ".", "b">> \o PklExt,
     <<".", "a">> \o PklExt, <<"a", ".", "t", "x", "t">>}

Absent ==
    [exists |-> FALSE, data |-> <<>>]

File(data) ==
    [exists |-> TRUE, data |-> data]

OldAggregator ==
    File(<<"// an earlier Builtins.pkl">>)

OldMeta ==
    File(<<"[an earlier builtins_meta.json]", "\n">>)

\* What subprocess.run gives for `pkl eval`: an exception (a timeout, a
\* missing executable), or a return code and a stdout.
InvalidJson ==
    [valid |-> FALSE, isDict |-> FALSE, props |-> <<>>]

NonObject ==
    [valid |-> TRUE, isDict |-> FALSE, props |-> <<>>]

\* A JSON object; props is data["moduleClass"]["properties"] in document
\* order, empty when either key is missing.
Doc(props) ==
    [valid |-> TRUE, isDict |-> TRUE, props |-> props]

Prop(name, anns) ==
    [name |-> name, isDict |-> TRUE, annotations |-> anns]

NonObjectProp(name) ==
    [name |-> name, isDict |-> FALSE, annotations |-> <<>>]

Raised ==
    [raised |-> TRUE, returncode |-> 0, stdout |-> InvalidJson]

Exited(rc, out) ==
    [raised |-> FALSE, returncode |-> rc, stdout |-> out]

AnnotationKeys ==
    {"category", "description", "project_indicators"}

\* An annotation element: an object with any of the three keys.
Annotations ==
    {[k \in S |-> full[k]] :
        S \in SUBSET AnnotationKeys,
        full \in [category : {"c1", "c2"}, description : {"d1", "d2"},
                  project_indicators : {JList(<<"i1">>), JString("s")}]}

AnnotationLists ==
    UNION {[1..n -> Annotations] : n \in 0..MaxAnns}

OtherAnnotations ==
    <<[category |-> "c9", description |-> "d9",
       project_indicators |-> JList(<<"i9">>)]>>

BasicOutputs ==
    {Raised, Exited(1, InvalidJson), Exited(0, InvalidJson),
     Exited(0, Doc(<<Prop("p1", <<>>)>>)),
     Exited(0, Doc(<<Prop("p2", <<[category |-> "c1"]>>)>>))}

RichOutputs ==
    {Raised, Exited(1, Doc(<<Prop("p1", <<>>)>>)), Exited(0, InvalidJson),
     Exited(0, NonObject), Exited(0, Doc(<<>>)),
     Exited(0, Doc(<<NonObjectProp("p1")>>))}
    \cup {Exited(0, Doc(<<Prop("p1", anns)>> \o more)) :
            anns \in AnnotationLists,
            more \in {<<>>, <<Prop("p2", OtherAnnotations)>>}}

FormatterExitCodes ==
    {0, 11}

NoException ==
    [type |-> "none", at |-> "none"]

Event(name, path) ==
    [ev |-> name, path |-> path]

----------------------------------------------------------------------------
(* The state before main() runs *)

InitWith(d, outputs) ==
    /\ dir = d
    /\ reflectOut \in [Glob(d) -> outputs]
    /\ metaPrior \in {Absent, OldMeta}
    /\ metaFile = metaPrior
    /\ aggFile = OldAggregator
    /\ aggFormatted = FALSE
    /\ fmtStatus = {}
    /\ pc = "agg_open"
    /\ files = <<>>
    /\ idx = 1
    /\ entries = <<>>
    /\ tmpfile = Absent
    /\ stdout = <<>>
    /\ exc = NoException
    /\ events = <<>>

\* Any directory of up to MaxFiles of the sample names.
Init ==
    \E d \in SUBSET SampleNames :
        /\ Cardinality(d) <= MaxFiles
        /\ InitWith(d, BasicOutputs)

\* A directory holding one file, of any generated name.
InitOneFile ==
    \E n \in GeneratedNames : InitWith({n}, BasicOutputs)

\* The run on a directory holding a.pkl alone, at the start of the loop of
\* line 63 (aggregator written, formatter returned), with any reflection output.
InitExtract ==
    /\ dir = {<<"a">> \o PklExt}
    /\ reflectOut \in [Glob(dir) -> RichOutputs]
    /\ metaPrior = Absent
    /\ metaFile = metaPrior
    /\ files = Sorted(Glob(dir))
    /\ aggFile = File(<<HEADER>> \o BindingLine(files[1]))
    /\ aggFormatted = TRUE
    /\ fmtStatus = {11}
    /\ pc = "reflect"
    /\ idx = 1
    /\ entries = <<>>
    /\ tmpfile = Absent
    /\ stdout = <<>>
    /\ exc = NoException
    /\ events = <<Event("aggregator_closed", <<>>),
                  Event("formatter_returned", <<>>)>>


----------------------------------------------------------------------------
(* main(), lines 45-50: the aggregator file *)

\* open("pkl/Builtins.pkl", "w", newline="\n") truncates the file.
AggOpen ==
    /\ pc = "agg_open"
    /\ aggFile' = File(<<>>)
    /\ pc' = "agg_header"
    /\ UNCHANGED <<dir, reflectOut, metaPrior, files, idx, aggFormatted,
                   fmtStatus, entries, tmpfile, metaFile, stdout, exc,
                   events>>

\* open() raises (no pkl directory, no permission): nothing catches it.
AggOpenRaises ==
    /\ pc = "agg_open"
    /\ exc' = [type |-> "OSError", at |-> "aggregator"]
    /\ pc' = "raised"
    /\ UNCHANGED <<dir, reflectOut, metaPrior, files, idx, aggFile,
                   aggFormatted, fmtStatus, entries, tmpfile, metaFile,
                   stdout, events>>

\* f.write(HEADER), then the for statement evaluates sorted(glob.glob(...)).
AggWriteHeader ==
    /\ pc = "agg_header"
    /\ aggFile' = File(aggFile.data \o <<HEADER>>)
    /\ files' = Sorted(Glob(dir))
    /\ idx' = 1
    /\ pc' = "agg_lines"
    /\ UNCHANGED <<dir, reflectOut, metaPrior, aggFormatted, fmtStatus,
                   entries, tmpfile, metaFile, stdout, exc, events>>

\* One iteration of the loop of lines 47-50.
AggWriteLine ==
    /\ pc = "agg_lines"
    /\ idx <= Len(files)
    /\ aggFile' = File(aggFile.data \o BindingLine(files[idx]))
    /\ idx' = idx + 1
    /\ UNCHANGED <<dir, reflectOut, metaPrior, pc, files, aggFormatted,
                   fmtStatus, entries, tmpfile, metaFile, stdout, exc,
                   events>>

\* Mutant of AggClose: the metadata pass starts without the formatter.
AggCloseSkipsFormatter ==
    /\ pc = "agg_lines"
    /\ idx > Len(files)
    /\ pc' = "meta_start"
    /\ events' = Append(events, Event("aggregator_closed", <<>>))
    /\ UNCHANGED <<dir, reflectOut, metaPrior, files, idx, aggFile,
                   aggFormatted, fmtStatus, entries, tmpfile, metaFile,
                   stdout, exc>>

\* The loop ends and the with block closes the file.
AggClose ==
    /\ pc = "agg_lines"
    /\ idx > Len(files)
    /\ pc' = "format"
    /\ events' = Append(events, Event("aggregator_closed", <<>>))
    /\ UNCHANGED <<dir, reflectOut, metaPrior, files, idx, aggFile,
                   aggFormatted, fmtStatus, entries, tmpfile, metaFile,
                   stdout, exc>>

\* A write to the aggregator file raises: nothing catches it.
AggWriteRaises ==
    /\ pc \in {"agg_header", "agg_lines"}
    /\ exc' = [type |-> "OSError", at |-> "aggregator"]
    /\ pc' = "raised"
    /\ UNCHANGED <<dir, reflectOut, metaPrior, files, idx, aggFile,
                   aggFormatted, fmtStatus, entries, tmpfile, metaFile,
                   stdout, events>>

(* line 53: subprocess.run(["pkl", "format", "--write", "pkl/Builtins.pkl"]) *)

\* Mutant of RunFormatter: check=True, a non-zero exit status raises.
RunFormatterChecked ==
    /\ pc = "format"
    /\ \E status \in FormatterExitCodes :
         /\ fmtStatus' = {status}
         /\ pc' = IF status = 0 THEN "meta_start" ELSE "raised"
         /\ exc' = IF status = 0 THEN exc
                  ELSE [type |-> "CalledProcessError", at |-> "formatter"]
    /\ aggFormatted' = TRUE
    /\ events' = Append(events, Event("formatter_returned", <<>>))
    /\ UNCHANGED <<dir, reflectOut, metaPrior, files, idx, aggFile, entries,
                   tmpfile, metaFile, stdout>>

\* The formatter returns, with any exit status, having rewritten the file in
\* place; neither is looked at.
RunFormatter ==
    /\ pc = "format"
    /\ \E status \in FormatterExitCodes : fmtStatus' = {status}
    /\ aggFormatted' = TRUE
    /\ pc' = "meta_start"
    /\ events' = Append(events, Event("formatter_returned", <<>>))
    /\ UNCHANGED <<dir, reflectOut, metaPrior, files, idx, aggFile, entries,
                   tmpfile, metaFile, stdout, exc>>

\* Mutant of FormatterRaises: the exception is swallowed and the run goes on.
FormatterRaisesIgnored ==
    /\ pc = "format"
    /\ exc' = [type |-> "FileNotFoundError", at |-> "formatter"]
    /\ pc' = "meta_start"
    /\ UNCHANGED <<dir, reflectOut, metaPrior, files, idx, aggFile,
                   aggFormatted, fmtStatus, entries, tmpfile, metaFile,
                   stdout, events>>

\* subprocess.run itself raises (no pkl executable): nothing catches it.
FormatterRaises ==
    /\ pc = "format"
    /\ exc' = [type |-> "FileNotFoundError", at |-> "formatter"]
    /\ pc' = "raised"
    /\ UNCHANGED <<dir, reflectOut, metaPrior, files, idx, aggFile,
                   aggFormatted, fmtStatus, entries, tmpfile, metaFile,
                   stdout, events>>

----------------------------------------------------------------------------
(* main(), lines 55-105: the metadata entries *)

\* entries = [] and the for statement's sorted(glob.glob(...)).
MetaStart ==
    /\ pc = "meta_start"
    /\ entries' = <<>>
    /\ files' = Sorted(Glob(dir))
    /\ idx' = 1
    /\ pc' = "reflect"
    /\ UNCHANGED <<dir, reflectOut, metaPrior, aggFile, aggFormatted,
                   fmtStatus, tmpfile, metaFile, stdout, exc, events>>

\* Mutant of ReflectFails: the failure of one fragment ends the run.
ReflectFailsAborts ==
    /\ pc = "reflect"
    /\ idx <= Len(files)
    /\ \/ reflectOut[files[idx]].raised
       \/ reflectOut[files[idx]].returncode # 0
    /\ exc' = [type |-> "CalledProcessError", at |-> "reflect"]
    /\ pc' = "raised"
    /\ events' = Append(events, Event("reflect", files[idx]))
    /\ UNCHANGED <<dir, reflectOut, metaPrior, files, idx, aggFile,
                   aggFormatted, fmtStatus, entries, tmpfile, metaFile,
                   stdout>>

\* `pkl eval` raises or exits non-zero: continue (lines 73-77).
ReflectFails ==
    /\ pc = "reflect"
    /\ idx <= Len(files)
    /\ \/ reflectOut[files[idx]].raised
       \/ reflectOut[files[idx]].returncode # 0
    /\ idx' = idx + 1
    /\ events' = Append(events, Event("reflect", files[idx]))
    /\ UNCHANGED <<dir, reflectOut, metaPrior, pc, files, aggFile,
                   aggFormatted, fmtStatus, entries, tmpfile, metaFile,
                   stdout, exc>>

\* `pkl eval` exits 0: its stdout is parsed and scanned (lines 75-105).
ReflectExtracts ==
    /\ pc = "reflect"
    /\ idx <= Len(files)
    /\ ~reflectOut[files[idx]].raised
    /\ reflectOut[files[idx]].returncode = 0
    /\ entries' = entries \o ExtractEntries(reflectOut[files[idx]].stdout)
    /\ idx' = idx + 1
    /\ events' = Append(events, Event("reflect", files[idx]))
    /\ UNCHANGED <<dir, reflectOut, metaPrior, pc, files, aggFile,
                   aggFormatted, fmtStatus, tmpfile, metaFile, stdout, exc>>

ReflectDone ==
    /\ pc = "reflect"
    /\ idx > Len(files)
    /\ pc' = "mkstemp"
    /\ UNCHANGED <<dir, reflectOut, metaPrior, files, idx, aggFile,
                   aggFormatted, fmtStatus, entries, tmpfile, metaFile,
                   stdout, exc, events>>

----------------------------------------------------------------------------
(* main(), lines 107-118: the metadata file *)

\* tempfile.mkstemp(dir="pkl", ...) creates an empty file.
Mkstemp ==
    /\ pc = "mkstemp"
    /\ tmpfile' = File(<<>>)
    /\ pc' = "fdopen"
    /\ events' = Append(events, Event("tempfile_created", <<>>))
    /\ UNCHANGED <<dir, reflectOut, metaPrior, files, idx, aggFile,
                   aggFormatted, fmtStatus, entries, metaFile, stdout, exc>>

\* mkstemp raises, before the try statement.
MkstempRaises ==
    /\ pc = "mkstemp"
    /\ exc' = [type |-> "OSError", at |-> "mkstemp"]
    /\ pc' = "raised"
    /\ UNCHANGED <<dir, reflectOut, metaPrior, files, idx, aggFile,
                   aggFormatted, fmtStatus, entries, tmpfile, metaFile,
                   stdout, events>>

\* os.fdopen(fd, "w", newline="\n")
Fdopen ==
    /\ pc = "fdopen"
    /\ pc' = "dump"
    /\ UNCHANGED <<dir, reflectOut, metaPrior, files, idx, aggFile,
                   aggFormatted, fmtStatus, entries, tmpfile, metaFile,
                   stdout, exc, events>>

\* Mutant of DumpChunk: the chunks go to pkl/builtins_meta.json itself.
DumpChunkInPlace ==
    /\ pc = "dump"
    /\ Len(tmpfile.data) < Len(JsonChunks(entries))
    /\ tmpfile' =
         File(Append(tmpfile.data, JsonChunks(entries)[Len(tmpfile.data) + 1]))
    /\ metaFile' = tmpfile'
    /\ UNCHANGED <<dir, reflectOut, metaPrior, pc, files, idx, aggFile,
                   aggFormatted, fmtStatus, entries, stdout, exc, events>>

\* json.dump writes its next chunk.
DumpChunk ==
    /\ pc = "dump"
    /\ Len(tmpfile.data) < Len(JsonChunks(entries))
    /\ tmpfile' =
         File(Append(tmpfile.data, JsonChunks(entries)[Len(tmpfile.data) + 1]))
    /\ UNCHANGED <<dir, reflectOut, metaPrior, pc, files, idx, aggFile,
                   aggFormatted, fmtStatus, entries, metaFile, stdout, exc,
                   events>>

\* f.write("\n")
WriteNewline ==
    /\ pc = "dump"
    /\ Len(tmpfile.data) = Len(JsonChunks(entries))
    /\ tmpfile' = File(Append(tmpfile.data, "\n"))
    /\ pc' = "close"
    /\ UNCHANGED <<dir, reflectOut, metaPrior, files, idx, aggFile,
                   aggFormatted, fmtStatus, entries, metaFile, stdout, exc,
                   events>>

\* The with block closes the temp file.
CloseTmp ==
    /\ pc = "close"
    /\ pc' = "replace"
    /\ UNCHANGED <<dir, reflectOut, metaPrior, files, idx, aggFile,
                   aggFormatted, fmtStatus, entries, tmpfile, metaFile,
                   stdout, exc, events>>

\* os.replace(tmpfile, "pkl/builtins_meta.json")
OsReplace ==
    /\ pc = "replace"
    /\ metaFile' = tmpfile
    /\ tmpfile' = Absent
    /\ pc' = "print"
    /\ events' = Append(events, Event("renamed", <<>>))
    /\ UNCHANGED <<dir, reflectOut, metaPrior, files, idx, aggFile,
                   aggFormatted, fmtStatus, entries, stdout, exc>>

\* Mutant of WriteRaises: the exception propagates without the unlink.
WriteRaisesNoUnlink ==
    /\ pc \in {"fdopen", "dump", "close", "replace"}
    /\ exc' = [type |-> "OSError", at |-> "write"]
    /\ pc' = "raised"
    /\ UNCHANGED <<dir, reflectOut, metaPrior, files, idx, aggFile,
                   aggFormatted, fmtStatus, entries, tmpfile, metaFile,
                   stdout, events>>

\* Anything in the try statement raises an Exception: os.unlink(tmpfile),
\* then raise (lines 114-116).
WriteRaises ==
    /\ pc \in {"fdopen", "dump", "close", "replace"}
    /\ tmpfile' = Absent
    /\ exc' = [type |-> "OSError", at |-> "write"]
    /\ pc' = "raised"
    /\ UNCHANGED <<dir, reflectOut, metaPrior, files, idx, aggFile,
                   aggFormatted, fmtStatus, entries, metaFile, stdout,
                   events>>

\* The run is interrupted inside the try statement: KeyboardInterrupt is no
\* Exception, so the except clause does not run.
Interrupted ==
    /\ pc \in {"fdopen", "dump", "close", "replace"}
    /\ exc' = [type |-> "KeyboardInterrupt", at |-> "write"]
    /\ pc' = "raised"
    /\ UNCHANGED <<dir, reflectOut, metaPrior, files, idx, aggFile,
                   aggFormatted, fmtStatus, entries, tmpfile, metaFile,
                   stdout, events>>

\* print("pkl/builtins_meta.json")
EmitPath ==
    /\ pc = "print"
    /\ stdout' = Append(stdout, "pkl/builtins_meta.json")
    /\ pc' = "done"
    /\ events' = Append(events, Event("printed", <<>>))
    /\ UNCHANGED <<dir, reflectOut, metaPrior, files, idx, aggFile,
                   aggFormatted, fmtStatus, entries, tmpfile, metaFile, exc>>

----------------------------------------------------------------------------

Next ==
    \/ AggOpen
    \/ AggOpenRaises
    \/ AggWriteHeader
    \/ AggWriteLine
    \/ AggClose
    \/ AggWriteRaises
    \/ RunFormatter
    \/ FormatterRaises
    \/ MetaStart
    \/ ReflectFails
    \/ ReflectExtracts
    \/ ReflectDone
    \/ Mkstemp
    \/ MkstempRaises
    \/ Fdopen
    \/ DumpChunk
    \/ WriteNewline
    \/ CloseTmp
    \/ OsReplace
    \/ WriteRaises
    \/ Interrupted
    \/ EmitPath

Spec ==
    Init /\ [][Next]_vars

SpecOneFile ==
    InitOneFile /\ [][Next]_vars

\* The metadata loop alone.
NextExtract ==
    \/ ReflectFails
    \/ ReflectExtracts
    \/ ReflectDone

SpecExtract ==
    InitExtract /\ [][NextExtract]_vars

----------------------------------------------------------------------------
(* Properties *)

\* Strictly ascending byte order, stated by the first position that differs.
ByteLess(a, b) ==
    LET shorter == IF Len(a) < Len(b) THEN Len(a) ELSE Len(b)
        differ == {k \in 1..shorter : a[k] # b[k]}
    IN  IF differ = {} THEN Len(a) < Len(b)
        ELSE \E k \in differ :
                /\ \A j \in differ : k <= j
                /\ Code(a[k]) < Code(b[k])

\* The entries of pkl/builtins that are fragments: visible names ending .pkl.
FragmentNames ==
    {n \in dir : /\ Len(n) > 4
                 /\ SubSeq(n, Len(n) - 3, Len(n)) = <<".", "p", "k", "l">>
                 /\ n[1] # "."}

\* The elements of S in strictly ascending byte order: the i-th is the one
\* with i-1 elements below it.
Ascending(S) ==
    [i \in 1..Cardinality(S) |->
        CHOOSE x \in S : Cardinality({y \in S : ByteLess(y, x)}) = i - 1]

AscendingNames ==
    Ascending(FragmentNames)

AscendingPaths ==
    Ascending({BuiltinsDir \o n : n \in FragmentNames})

\* The binding line of a fragment name, from the name less its last 4 characters.
ExpectedLine(n) ==
    LET stem == SubSeq(n, 1, Len(n) - 4)
        ident == [i \in 1..Len(stem) |-> IF stem[i] = "-" THEN "_" ELSE stem[i]]
    IN  ident \o <<" = Builtins[\"builtins/">> \o stem \o <<".pkl\"].">>
            \o ident \o <<"\n">>

RECURSIVE Flatten(_)
Flatten(seqs) ==
    IF seqs = <<>> THEN <<>> ELSE Head(seqs) \o Flatten(Tail(seqs))

ExpectedAggregator ==
    LET names == AscendingNames
    IN  <<HEADER>> \o Flatten([i \in DOMAIN names |-> ExpectedLine(names[i])])

CountOf(seq, chunk) ==
    Cardinality({i \in 1..Len(seq) : seq[i] = chunk})

EventNames ==
    {events[i].ev : i \in 1..Len(events)}

PastLoop ==
    pc \in {"mkstemp", "fdopen", "dump", "close", "replace", "print", "done"}

\* C1: pkl/builtins_meta.json is at every moment of a run, failed and
\* interrupted runs included, either exactly what it was before the run or
\* the complete new array with its trailing newline, the latter only once the
\* rename has happened; partial content is in the temp file alone.
C1_MetaFileNeverPartial ==
    \/ metaFile = metaPrior /\ "renamed" \notin EventNames
    \/ /\ metaFile = File(JsonChunks(entries) \o <<"\n">>)
       /\ "renamed" \in EventNames
       /\ pc \in {"print", "done"}

\* An interrupted run has left a partly written temp file beside an older
\* metadata file that is untouched.
C1_Witness ==
    /\ pc = "raised"
    /\ exc.type = "KeyboardInterrupt"
    /\ tmpfile.exists
    /\ tmpfile.data # <<>>
    /\ Len(tmpfile.data) < Len(JsonChunks(entries))
    /\ entries # <<>>
    /\ metaPrior = OldMeta
    /\ metaFile = OldMeta

ReflectionExitedNonZero(f) ==
    ~reflectOut[f].raised /\ reflectOut[f].returncode # 0

YieldsEntry(f) ==
    /\ ~reflectOut[f].raised
    /\ reflectOut[f].returncode = 0
    /\ reflectOut[f].stdout.valid
    /\ reflectOut[f].stdout.isDict
    /\ reflectOut[f].stdout.props # <<>>
    /\ reflectOut[f].stdout.props[1].isDict

ExactlyOneFails ==
    /\ Cardinality({f \in DOMAIN reflectOut : ReflectionExitedNonZero(f)}) = 1
    /\ \A f \in DOMAIN reflectOut : ReflectionExitedNonZero(f) \/ YieldsEntry(f)

\* C2: when the reflection subprocess exits non-zero for exactly one of the N
\* fragments and the others are processed successfully, the failure does not
\* end the run, every fragment is still reflected over, and the array that is
\* written holds exactly N-1 entries, none of them for the failed fragment.
C2_OneFailureOmitsOneEntry ==
    ExactlyOneFails =>
        /\ exc.at # "reflect"
        /\ PastLoop =>
              /\ {events[i].path : i \in {j \in 1..Len(events) :
                                           events[j].ev = "reflect"}}
                   = DOMAIN reflectOut
              /\ Len(entries) = Cardinality(DOMAIN reflectOut) - 1
              /\ \A i \in 1..Len(entries) :
                    \E f \in DOMAIN reflectOut :
                        /\ YieldsEntry(f)
                        /\ entries[i].name = reflectOut[f].stdout.props[1].name
        /\ pc \in {"print", "done"} =>
              /\ metaFile.exists
              /\ CountOf(metaFile.data, "{") = Cardinality(DOMAIN reflectOut) - 1

\* A finished run over two fragments, one of which failed to reflect.
C2_Witness ==
    /\ ExactlyOneFails
    /\ Cardinality(DOMAIN reflectOut) >= 2
    /\ pc = "done"
    /\ Len(entries) = Cardinality(DOMAIN reflectOut) - 1
    /\ CountOf(metaFile.data, "{") = Len(entries)

\* C3: when a step of the final write raises after the temp file was created,
\* the run ends with the exception uncaught, the temp file removed and the
\* output path not printed.
C3_FailedWriteRemovesTempFile ==
    (exc.at = "write" /\ exc.type = "OSError") =>
        /\ pc = "raised"
        /\ ~tmpfile.exists
        /\ stdout = <<>>
        /\ metaFile = metaPrior

\* A write failed after the temp file had been created.
C3_Witness ==
    /\ exc.at = "write"
    /\ exc.type = "OSError"
    /\ pc = "raised"
    /\ "tempfile_created" \in EventNames
    /\ ~tmpfile.exists
    /\ entries # <<>>

RECURSIVE ExpectedEntries(_)
ExpectedEntries(paths) ==
    IF paths = <<>> THEN <<>>
    ELSE (IF YieldsEntry(Head(paths))
          THEN <<EntryOf(reflectOut[Head(paths)].stdout.props[1])>>
          ELSE <<>>)
         \o ExpectedEntries(Tail(paths))

\* C4: whatever exit status the formatter returns, the run does not fail on
\* it: it goes on to the metadata pass, which collects the same entries and
\* writes the same file as after exit status 0.
C4_FormatterStatusIgnored ==
    fmtStatus # {} =>
        /\ exc.at # "formatter"
        /\ pc \notin {"agg_open", "agg_header", "agg_lines", "format"}
        /\ PastLoop =>
              LET expected == ExpectedEntries(AscendingPaths)
              IN  /\ entries = expected
                  /\ pc \in {"print", "done"} =>
                        metaFile = File(JsonChunks(expected) \o <<"\n">>)

\* A run that finished although the formatter exited with status 11.
C4_Witness ==
    /\ fmtStatus = {11}
    /\ pc = "done"
    /\ entries # <<>>
    /\ stdout = <<"pkl/builtins_meta.json">>

\* C5: when the formatter invocation itself raises, the run ends there: no
\* fragment was reflected over, no temp file was created, the metadata file is
\* as before, nothing was printed, and pkl/Builtins.pkl holds the unformatted
\* header and binding lines.
C5_FormatterRaiseAborts ==
    exc.at = "formatter" =>
        /\ pc = "raised"
        /\ EventNames = {"aggregator_closed"}
        /\ ~tmpfile.exists
        /\ metaFile = metaPrior
        /\ stdout = <<>>
        /\ ~aggFormatted
        /\ aggFile = File(ExpectedAggregator)

\* The formatter raised in a directory with fragments and an older metadata
\* file.
C5_Witness ==
    /\ exc.at = "formatter"
    /\ pc = "raised"
    /\ FragmentNames # {}
    /\ metaFile = OldMeta
    /\ aggFile # OldAggregator

\* C6: the aggregator file main() has written is the header followed by one
\* binding line per fragment, in strictly ascending byte order of the
\* fragments' file names; the header alone when there is no fragment.
C6_AggregatorIsHeaderPlusSortedLines ==
    (/\ pc \notin {"agg_open", "agg_header", "agg_lines"}
     /\ exc.at # "aggregator"
     /\ ~aggFormatted)
        => aggFile = File(ExpectedAggregator)

\* The file was written for two fragments whose order by file name is not
\* their order by stem, beside entries that are no fragments.
C6_Witness ==
    /\ pc = "format"
    /\ Len(files) = 2
    /\ StrLess(Filename(files[2]), Filename(files[1]))
    /\ FragmentNames # dir
    /\ aggFile = File(ExpectedAggregator)

\* C7 as stated: for every file name, deriving the identifier of the derived
\* identifier gives that identifier again.
C7_DerivationIdempotent ==
    \A i \in 1..Len(files) :
        Identifier(Identifier(files[i])) = Identifier(files[i])

HasDot(s) ==
    \E i \in 1..Len(s) : s[i] = "."

\* C7, amended: for every fragment whose name without the .pkl extension holds
\* no dot, deriving the identifier of the derived identifier gives that
\* identifier again.
C7_DerivationIdempotentWithoutDot ==
    \A i \in 1..Len(files) :
        ~HasDot(Filename(files[i])) =>
            Identifier(Identifier(files[i])) = Identifier(files[i])

\* The binding line of a fragment with two hyphens and no dot was written.
C7_Witness ==
    /\ pc = "format"
    /\ Len(files) = 1
    /\ ~HasDot(Filename(files[1]))
    /\ CountOf(Filename(files[1]), "-") = 2
    /\ CountOf(Identifier(files[1]), "_") = 2
    /\ aggFile.data = <<HEADER>> \o BindingLine(files[1])

ExpectedEvents ==
    LET paths == AscendingPaths
    IN  <<Event("aggregator_closed", <<>>), Event("formatter_returned", <<>>)>>
            \o [i \in DOMAIN paths |-> Event("reflect", paths[i])]
            \o <<Event("tempfile_created", <<>>), Event("renamed", <<>>),
                 Event("printed", <<>>)>>

\* C8: the steps of a run always come in the order: aggregator file written
\* and closed, formatter returned, one reflection per fragment in ascending
\* path order, temp file created, rename, path printed; so no reflection
\* starts before the aggregator file is closed and the formatter has returned.
C8_StepsInOrder ==
    /\ LET expected == ExpectedEvents
       IN  /\ Len(events) <= Len(expected)
           /\ events = SubSeq(expected, 1, Len(events))
    /\ "reflect" \in EventNames =>
          /\ fmtStatus # {}
          /\ aggFile.exists
          /\ aggFile.data # <<>>
          /\ aggFile.data[Len(aggFile.data)] \in {HEADER, "\n"}

\* A finished run that reflected over two fragments.
C8_Witness ==
    /\ pc = "done"
    /\ Len(events) = 7
    /\ events[3].ev = "reflect"
    /\ events[4].ev = "reflect"
    /\ events[7].ev = "printed"

----------------------------------------------------------------------------
(* Properties of the extraction, under SpecExtract *)

TheOutput ==
    reflectOut[files[1]]

\* The one fragment has been processed and its first property was scanned.
Scanned ==
    idx = 2 /\ YieldsEntry(files[1])

FirstAnnotations ==
    TheOutput.stdout.props[1].annotations

HasNonList(ann) ==
    "project_indicators" \in DOMAIN ann /\ ~ann.project_indicators.isList

HasList(ann) ==
    "project_indicators" \in DOMAIN ann /\ ann.project_indicators.isList

\* The value of key in the last element of anns that has key.
LastValue(anns, key, default) ==
    LET hits == {i \in 1..Len(anns) : key \in DOMAIN anns[i]}
    IN  IF hits = {} THEN default
        ELSE anns[CHOOSE i \in hits : \A j \in hits : j <= i][key]

LastList(anns) ==
    LET hits == {i \in 1..Len(anns) : HasList(anns[i])}
    IN  IF hits = {} THEN JList(<<>>)
        ELSE anns[CHOOSE i \in hits : \A j \in hits : j <= i].project_indicators

\* C9 as stated: whenever an annotation of the first property has a
\* project_indicators value that is not a list, the entry is emitted with the
\* empty list as its project_indicators.
C9_NonListGivesEmptyList ==
    (Scanned /\ \E i \in 1..Len(FirstAnnotations) : HasNonList(FirstAnnotations[i]))
        => /\ Len(entries) = 1
           /\ entries[1].project_indicators = JList(<<>>)

\* C9, amended: a project_indicators value that is not a list is discarded
\* without an error and the entry is still emitted; its project_indicators is
\* the value of the last annotation whose project_indicators is a list, and
\* the empty list when no annotation has one.
C9_NonListIsDiscarded ==
    (Scanned /\ \E i \in 1..Len(FirstAnnotations) : HasNonList(FirstAnnotations[i]))
        => /\ Len(entries) = 1
           /\ entries[1].project_indicators.isList
           /\ entries[1].project_indicators = LastList(FirstAnnotations)

\* An entry was emitted for annotations whose only project_indicators value
\* is not a list.
C9_Witness ==
    /\ Scanned
    /\ \E i \in 1..Len(FirstAnnotations) : HasNonList(FirstAnnotations[i])
    /\ \A i \in 1..Len(FirstAnnotations) : ~HasList(FirstAnnotations[i])
    /\ Len(entries) = 1
    /\ entries[1].project_indicators = JList(<<>>)

\* C10: a fragment whose reflection exits 0 adds at most one entry; the entry
\* has the name of the first property, and its category and its description
\* are each the value in the last annotation that sets it, the empty string
\* when none does.
C10_FirstPropertyLastMatchWins ==
    (idx = 2 /\ ~TheOutput.raised /\ TheOutput.returncode = 0) =>
        /\ Len(entries) <= 1
        /\ Scanned =>
              /\ Len(entries) = 1
              /\ entries[1].name = TheOutput.stdout.props[1].name
              /\ entries[1].category
                   = LastValue(FirstAnnotations, "category", "")
              /\ entries[1].description
                   = LastValue(FirstAnnotations, "description", "")

\* An entry was emitted for a fragment with two properties whose first has
\* two annotations that set different categories and different descriptions.
C10_Witness ==
    /\ Scanned
    /\ Len(TheOutput.stdout.props) = 2
    /\ Len(FirstAnnotations) >= 2
    /\ "category" \in DOMAIN FirstAnnotations[1]
    /\ "category" \in DOMAIN FirstAnnotations[2]
    /\ "description" \in DOMAIN FirstAnnotations[1]
    /\ "description" \in DOMAIN FirstAnnotations[2]
    /\ FirstAnnotations[1].category # FirstAnnotations[2].category
    /\ FirstAnnotations[1].description # FirstAnnotations[2].description
    /\ Len(FirstAnnotations) = 2
    /\ Len(entries) = 1
    /\ entries[1].category = FirstAnnotations[2].category
    /\ entries[1].description = FirstAnnotations[2].description

====
